---- MODULE Spec2Model ----
(***************************************************************************)
(* Model of starsep/bookworm: the incremental crawl of two book catalogs   *)
(* (lubimyczytac.pl = LC, nakanapie.pl = NK), the import of LC shelves     *)
(* into NK (importLubimyCzytacToNaKanapie) and the CSV own-list import     *)
(* (csvOwnedToNaKanapie).                                                  *)
(*                                                                         *)
(* Strings that the code inspects character by character (ISBNs) are       *)
(* sequences of one-character strings.  An absent value (Python None) is   *)
(* the one-element sequence None, which no ISBN equals.                    *)
(***************************************************************************)
EXTENDS Integers, Sequences, FiniteSets, TLC

VARIABLES
    \* ---- crawl (lubimyczytac.getBooks / nakanapie.getBooks + download*) ----
    catalog,          \* "LC" or "NK": which crawler runs
    remoteCount,      \* number of items the remote listing holds (ids 1..N)
    remoteData,       \* what the listing now says of its items (title, tags, status)
    perPage,          \* items the remote puts on one listing page
    snapshot,         \* the persisted snapshot file: sequence of [id, isbn, data]
    previousResult,   \* snapshot as read at the start of the current crawl
    books,            \* the crawl's output collection under construction
    pagesPending,     \* page numbers whose fetch task has not completed
    detailPending,    \* ids whose getBookIsbn task has not completed
    detailFetched,    \* ids for which a detail fetch was issued in this crawl
    detailCalls,      \* the getBookIsbn calls of this crawl, by id, as issued
    crawlPc,          \* "idle" | "stale" (the remote changed since the save) |
                      \* "pages" | "enrich" | "crashed" |
                      \* "listingFailed" | "detailFailed"
    crawlsDone,       \* completed crawls (each ends with a save)
    \* ---- reconciliation (importLubimyCzytacToNaKanapie, csvOwnedToNaKanapie) ----
    session,          \* httpxClient's cookies: "none" | "authenticated"
    program,           \* the entry point that runs: "import" or "csv"
    lubimyCzytacBooks, \* catalog A: sequence of [isbn, shelves]
    naKanapieBooks,    \* catalog B: sequence of [id, isbn, kind, lists]
    naKanapieBefore,   \* catalog B as loaded, before any in-place mutation
    ownListId,         \* the --ownListId argument (NoList when not given)
    mapping,           \* LUBIMYCZYTAC_TO_NAKANAPIE (module-level, mutated at start)
    ignoredShelves,    \* module-level set of shelves already reported unknown
    isbnsToProcess,    \* csvOwnedToNaKanapie: the CSV's ISBN column
    tasks,             \* coroutines of the gather in progress
    isbnsNotFound,     \* the unresolved list of the create pass
    failedAdds,        \* ISBNs printed by "Failed to add book with isbn ..."
    updateCalls,       \* updateNaKanapieBookStatus requests issued, in order
    searchCalls,       \* searchNaKanapieBook requests issued, in order
    createCalls,       \* addNaKanapieBook requests issued, in order
    savedNaKanapie,    \* what saveNaKanapie wrote at the end of the import
    pc,                \* phase of the run
    \* ---- normalizeIsbn, applied on its own ----
    isbnPair,          \* two raw ISBN strings
    normalized,        \* <<>> or <<key of the first, key of the second,
                       \*         key of the first's key>>
    \* ---- the snapshot file, written and read on its own ----
    collection,        \* the books handed to the save
    file,              \* [exists, content]: the JSON file, content as parsed JSON
    loaded,            \* what the read returned
    filePc             \* "start" | "saved" | "loaded" | "loadedNone"

crawlVars == <<catalog, remoteCount, remoteData, perPage, snapshot, previousResult, books,
               pagesPending, detailPending, detailFetched, detailCalls, crawlPc, crawlsDone>>

syncVars == <<session, program, lubimyCzytacBooks, naKanapieBooks, naKanapieBefore, ownListId,
              mapping, ignoredShelves, isbnsToProcess, tasks, isbnsNotFound,
              failedAdds, updateCalls, searchCalls, createCalls,
              savedNaKanapie, pc>>

normVars == <<isbnPair, normalized>>

fileVars == <<collection, file, loaded, filePc>>

vars == <<crawlVars, syncVars, normVars, fileVars>>

-----------------------------------------------------------------------------
(* Bounds of the model *)

\* Largest remote listing crawled.
MaxItems == 3
\* Most items the remote service puts on one listing page.
PerPage == 2
\* Crawls run one after the other over the same snapshot file.
MaxCrawls == 2
\* Identity keys that catalogs A and B are drawn over.
NumKeys == 2
\* Rows of the CSV file.
MaxRows == 2
\* Longest raw ISBN string handed to normalizeIsbn on its own.
MaxLen == 3

-----------------------------------------------------------------------------
(* Values *)

None == <<"None">>
NoTag == <<"NoTag">>
NoList == 0

Placeholder ==
    <<"0","0","0","-","0","0","-","0","0","0","0","-","0","0","-","0">>

Whitespace == {" ", "\t", "\n"}

RECURSIVE SeqToSet(_)
SeqToSet(s) == IF s = <<>> THEN {} ELSE {Head(s)} \cup SeqToSet(Tail(s))

Contains(s, x) == \E i \in 1..Len(s) : s[i] = x

-----------------------------------------------------------------------------
(* common.py *)

\* str.replace(ch, "")
Replace(s, ch) == SelectSeq(s, LAMBDA c : c # ch)

RECURSIVE LStrip(_)
LStrip(s) == IF s # <<>> /\ Head(s) \in Whitespace THEN LStrip(Tail(s)) ELSE s

RECURSIVE RStrip(_)
RStrip(s) ==
    IF s # <<>> /\ s[Len(s)] \in Whitespace
    THEN RStrip(SubSeq(s, 1, Len(s) - 1))
    ELSE s

\* str.strip()
Strip(s) == RStrip(LStrip(s))

KeepSpacesMutant(isbn) == Strip(Replace(isbn, "-"))

normalizeIsbn(isbn) == Strip(Replace(Replace(isbn, "-"), " "))

\* getBookIsbn: the HTTP response of the detail page is [code, content],
\* content being the books:isbn meta tag's value or NoTag.
getBookIsbn(response) ==
    IF response.code = 404 THEN [raised |-> FALSE, isbn |-> None]
    ELSE IF response.code # 200 THEN [raised |-> TRUE, isbn |-> None]
    ELSE IF response.content = NoTag THEN [raised |-> FALSE, isbn |-> None]
    ELSE IF response.content = Placeholder THEN [raised |-> FALSE, isbn |-> None]
    ELSE [raised |-> FALSE, isbn |-> normalizeIsbn(response.content)]

CodePoint(c) ==
    CASE c = "\t" -> 9
      [] c = "\n" -> 10
      [] c = " " -> 32
      [] c = "-" -> 45
      [] c = "0" -> 48
      [] c = "1" -> 49
      [] c = "2" -> 50
      [] c = "3" -> 51
      [] OTHER -> 52

\* Python's str <
RECURSIVE StrLess(_, _)
StrLess(a, b) ==
    IF b = <<>> THEN FALSE
    ELSE IF a = <<>> THEN TRUE
    ELSE IF CodePoint(Head(a)) # CodePoint(Head(b))
         THEN CodePoint(Head(a)) < CodePoint(Head(b))
         ELSE StrLess(Tail(a), Tail(b))

SortKey(book) == IF book.isbn = None THEN <<>> ELSE book.isbn

\* insert b after every element whose key is <= b's key (stable)
RECURSIVE InsertSorted(_, _)
InsertSorted(sorted, b) ==
    IF sorted = <<>> THEN <<b>>
    ELSE IF StrLess(SortKey(b), SortKey(Head(sorted)))
         THEN <<b>> \o sorted
         ELSE <<Head(sorted)>> \o InsertSorted(Tail(sorted), b)

RECURSIVE SortFrom(_, _)
SortFrom(acc, rest) ==
    IF rest = <<>> THEN acc
    ELSE SortFrom(InsertSorted(acc, Head(rest)), Tail(rest))

\* sorted(books, key=...) is a stable sort
sortBooksByIsbn(bs) == SortFrom(<<>>, bs)

-----------------------------------------------------------------------------
(* The crawl: lubimyczytac.py and nakanapie.py *)

Catalogs == {"LC", "NK"}

\* Detail pages the remote may answer with.
DetailPages ==
    { [code |-> 404, content |-> NoTag],
      [code |-> 500, content |-> NoTag],
      [code |-> 200, content |-> NoTag],
      [code |-> 200, content |-> Placeholder],
      [code |-> 200, content |-> <<" ">> \o Placeholder],
      [code |-> 200, content |-> <<"1", "-", "2">>],
      [code |-> 200, content |-> <<"\t", "3", " ">>],
      [code |-> 200, content |-> <<"-">>] }

\* bookIdToIsbn: {book.id: normalizeIsbn(book.isbn) for book in previousResult
\*                if book.isbn is not None}; a later entry overwrites an earlier one.
RECURSIVE BookIdToIsbnFrom(_, _)
BookIdToIsbnFrom(acc, prev) ==
    IF prev = <<>> THEN acc
    ELSE BookIdToIsbnFrom(
            IF Head(prev).isbn # None
            THEN [id \in DOMAIN acc \cup {Head(prev).id} |->
                    IF id = Head(prev).id THEN normalizeIsbn(Head(prev).isbn)
                    ELSE acc[id]]
            ELSE acc,
            Tail(prev))

EmptyCacheMutant(prev) == << >>

BookIdToIsbn(prev) == BookIdToIsbnFrom(<< >>, prev)

\* bookIdToIsbn.get(id, None)
CachedIsbn(cache, id) == IF id \in DOMAIN cache THEN cache[id] ELSE None

\* Status codes the listing endpoint may answer page p with: success, a
\* transport/server failure, and not-found only for a page past the listing.
PageCodes(p) == {200, 500} \cup (IF (p - 1) * perPage >= remoteCount THEN {404} ELSE {})

\* ids the remote lists on page p
PageIds(p) ==
    LET lo == (p - 1) * perPage + 1
        hi == IF p * perPage < remoteCount THEN p * perPage ELSE remoteCount
    IN  IF lo <= hi THEN [i \in 1..(hi - lo + 1) |-> lo + i - 1] ELSE <<>>

StaleDataMutant(id) ==
    IF \E j \in 1..Len(snapshot) : snapshot[j].id = id
    THEN snapshot[CHOOSE j \in 1..Len(snapshot) : snapshot[j].id = id].data
    ELSE remoteData

\* getBooksPage: title, tags and status of a book are read off the listing
ListingData(id) == remoteData

\* getBooksPage: the parsed books of page p, identity adopted from the cache
PageBooks(p, cache) ==
    LET ids == PageIds(p)
    IN  [i \in 1..Len(ids) |->
            [id |-> ids[i], isbn |-> CachedIsbn(cache, ids[i]),
             data |-> ListingData(ids[i])]]

\* pagination.pages of the NK listing
TotalPages == (remoteCount + perPage - 1) \div perPage

RECURSIVE ConcatPages(_, _, _)
ConcatPages(p, last, cache) ==
    IF p > last THEN <<>>
    ELSE PageBooks(p, cache) \o ConcatPages(p + 1, last, cache)

FetchAllMutant(bs) == [i \in 1..Len(bs) |-> bs[i].id]

\* [_addMissingIsbn(book) for book in books if book.isbn is None]: the tasks
\* the gather is given, one getBookIsbn call each, by id
DetailTasks(bs) ==
    LET missing == SelectSeq(bs, LAMBDA book : book.isbn = None)
    IN  [i \in 1..Len(missing) |-> missing[i].id]

MissingIsbnIds(bs) == { bs[i].id : i \in { j \in 1..Len(bs) : bs[j].isbn = None } }

\* download*: read the snapshot, fetch page 1, schedule the other pages.
\* firstCode is the status of the first listing response.
StartCrawl(firstCode) ==
    /\ crawlPc \in {"idle", "stale"}
    /\ crawlsDone < MaxCrawls
    /\ previousResult' = snapshot
    /\ detailFetched' = {}
    /\ detailCalls' = <<>>
    /\ detailPending' = {}
    /\ LET cache == BookIdToIsbn(snapshot)
           first == PageBooks(1, cache)
       IN  IF firstCode = 500
           THEN \* raise_for_status()
                /\ crawlPc' = "listingFailed"
                /\ books' = <<>>
                /\ pagesPending' = {}
           ELSE IF catalog = "LC"
           THEN IF firstCode = 404 \/ Len(first) = 0
                THEN \* None.books, or count // len(firstPage.books) with len 0
                     /\ crawlPc' = "crashed"
                     /\ books' = <<>>
                     /\ pagesPending' = {}
                ELSE /\ crawlPc' = "pages"
                     /\ books' = first
                     /\ pagesPending' = 2..(remoteCount \div Len(first) + 1)
           ELSE IF firstCode = 404
                THEN \* nakanapie.getBooksPage: raise_for_status()
                     /\ crawlPc' = "listingFailed"
                     /\ books' = <<>>
                     /\ pagesPending' = {}
                ELSE /\ crawlPc' = "pages"
                     /\ books' = first
                     /\ pagesPending' = 2..TotalPages
    /\ UNCHANGED <<catalog, remoteCount, remoteData, perPage, snapshot, crawlsDone>>

\* One page fetch task completes with status `code`.
PageDone(p, code) ==
    /\ crawlPc = "pages"
    /\ p \in pagesPending
    /\ LET cache == BookIdToIsbn(previousResult)
           got == PageBooks(p, cache)
       IN  IF code = 500 \/ (code = 404 /\ catalog = "NK")
           THEN /\ crawlPc' = "listingFailed"
                /\ pagesPending' = {}
                /\ UNCHANGED books
           ELSE /\ pagesPending' = pagesPending \ {p}
                /\ crawlPc' = "pages"
                /\ IF catalog = "LC"
                   THEN \* _processPage: books.extend on completion
                        books' = IF code = 404 \/ Len(got) = 0 THEN books
                                 ELSE books \o got
                   ELSE \* NK: the gather's results are appended in page order
                        \* once every page has completed
                        books' = IF pagesPending = {p}
                                 THEN books \o ConcatPages(2, TotalPages, cache)
                                 ELSE books
    /\ UNCHANGED <<catalog, remoteCount, remoteData, perPage, snapshot, previousResult,
                   detailPending, detailFetched, detailCalls, crawlsDone>>

NoGatherMutant == TRUE

\* await tqdm.gather(*[_processPage(page) ...]): every page task has returned
PagesGathered == pagesPending = {}

\* All pages are in: one _addMissingIsbn task per book without an ISBN.
StartEnrich ==
    /\ crawlPc = "pages"
    /\ PagesGathered
    /\ crawlPc' = "enrich"
    /\ detailPending' = MissingIsbnIds(books)
    /\ detailFetched' = MissingIsbnIds(books)
    /\ detailCalls' = DetailTasks(books)
    /\ UNCHANGED <<catalog, remoteCount, remoteData, perPage, snapshot, previousResult, books,
                   pagesPending, crawlsDone>>

\* _addMissingIsbn(book): book.isbn = await getBookIsbn(book.url)
DetailDone(id, response) ==
    /\ crawlPc = "enrich"
    /\ id \in detailPending
    /\ LET r == getBookIsbn(response)
       IN  IF r.raised
           THEN /\ crawlPc' = "detailFailed"
                /\ detailPending' = {}
                /\ UNCHANGED books
           ELSE /\ crawlPc' = "enrich"
                /\ detailPending' = detailPending \ {id}
                /\ books' = [i \in 1..Len(books) |->
                               IF books[i].id = id
                               THEN [books[i] EXCEPT !.isbn = r.isbn]
                               ELSE books[i]]
    /\ UNCHANGED <<catalog, remoteCount, remoteData, perPage, snapshot, previousResult,
                   pagesPending, detailFetched, detailCalls, crawlsDone>>

\* The snapshot is written: sortBooksByIsbn(books).
SaveSnapshot ==
    /\ crawlPc = "enrich"
    /\ detailPending = {}
    /\ snapshot' = sortBooksByIsbn(books)
    /\ crawlPc' = "idle"
    /\ crawlsDone' = crawlsDone + 1
    /\ UNCHANGED <<catalog, remoteCount, remoteData, perPage, previousResult, books, pagesPending,
                   detailPending, detailFetched, detailCalls>>

SyncIdle ==
    /\ session = "none"
    /\ program = "none"
    /\ lubimyCzytacBooks = <<>>
    /\ naKanapieBooks = <<>>
    /\ naKanapieBefore = <<>>
    /\ ownListId = NoList
    /\ mapping = << >>
    /\ ignoredShelves = {}
    /\ isbnsToProcess = <<>>
    /\ tasks = <<>>
    /\ isbnsNotFound = <<>>
    /\ failedAdds = <<>>
    /\ updateCalls = <<>>
    /\ searchCalls = <<>>
    /\ createCalls = <<>>
    /\ savedNaKanapie = <<>>
    /\ pc = "none"

NormIdle ==
    /\ isbnPair = <<<<>>, <<>>>>
    /\ normalized = <<>>

NoFile == [exists |-> FALSE, content |-> <<>>]

FileIdle ==
    /\ collection = <<>>
    /\ file = NoFile
    /\ loaded = <<>>
    /\ filePc = "none"

CrawlIdle ==
    /\ catalog = "NK"
    /\ remoteCount = 0
    /\ remoteData = "v1"
    /\ perPage = 1
    /\ snapshot = <<>>
    /\ previousResult = <<>>
    /\ books = <<>>
    /\ pagesPending = {}
    /\ detailPending = {}
    /\ detailFetched = {}
    /\ detailCalls = <<>>
    /\ crawlPc = "none"
    /\ crawlsDone = 0

\* Between two crawls the remote listing changes (once in a behaviour): an
\* item comes or goes, and the listing says something else of every item.
RemoteChanges(n) ==
    /\ crawlPc = "idle"
    /\ crawlsDone > 0
    /\ crawlsDone < MaxCrawls
    /\ remoteData = "v1"
    /\ n \in 0..MaxItems
    /\ remoteCount' = n
    /\ remoteData' = "v2"
    /\ crawlPc' = "stale"
    /\ UNCHANGED <<catalog, perPage, snapshot, previousResult, books, pagesPending,
                   detailPending, detailFetched, detailCalls, crawlsDone>>

InitCrawl ==
    /\ catalog \in Catalogs
    /\ remoteCount \in 0..MaxItems
    /\ NormIdle
    /\ FileIdle
    /\ remoteData = "v1"
    /\ perPage \in (IF catalog = "NK" THEN {PerPage} ELSE 1..PerPage)
    /\ snapshot = <<>>
    /\ previousResult = <<>>
    /\ books = <<>>
    /\ pagesPending = {}
    /\ detailPending = {}
    /\ detailFetched = {}
    /\ detailCalls = <<>>
    /\ crawlPc = "idle"
    /\ crawlsDone = 0
    /\ SyncIdle

NextCrawl ==
    \/ \E code \in PageCodes(1) : StartCrawl(code) /\ UNCHANGED <<syncVars, normVars, fileVars>>
    \/ \E p \in pagesPending : \E code \in PageCodes(p) :
          PageDone(p, code) /\ UNCHANGED <<syncVars, normVars, fileVars>>
    \/ StartEnrich /\ UNCHANGED <<syncVars, normVars, fileVars>>
    \/ \E id \in detailPending, response \in DetailPages :
          DetailDone(id, response) /\ UNCHANGED <<syncVars, normVars, fileVars>>
    \/ SaveSnapshot /\ UNCHANGED <<syncVars, normVars, fileVars>>
    \/ \E n \in {remoteCount - 1, remoteCount + 1} :
          RemoteChanges(n) /\ UNCHANGED <<syncVars, normVars, fileVars>>

SpecCrawl == InitCrawl /\ [][NextCrawl]_vars

-----------------------------------------------------------------------------
(* Reconciliation: importLubimyCzytacToNaKanapie.py, csvOwnedToNaKanapie.py *)

SHELF_READ == "Przeczytane"
SHELF_OWN == "Posiadam"
\* "Chcę przeczytać" in the source, written here in ASCII
SHELF_WANT_TO_READ == "Chce przeczytac"
SHELF_READING == "Teraz czytam"
\* a shelf the user made, with no entry in the mapping
SHELF_OTHER == "Ulubione"

KIND_READING == "currently_reading"
KIND_READ == "have_read"
KIND_WANT_TO_READ == "want_to_read"
\* Python None in a kind field
NoKind == "None"

\* The list id given as --ownListId, and a list of B that A knows nothing of.
OwnList == 7
OtherList == 5

KeyChars == <<"1", "2", "3", "0">>
Key(i) == <<KeyChars[i]>>
Keys == { Key(i) : i \in 1..NumKeys }

\* LUBIMYCZYTAC_TO_NAKANAPIE as written in the module: str values are kinds
BaseMapping ==
    [shelf \in {SHELF_READING, SHELF_READ, SHELF_WANT_TO_READ} |->
        [kind |-> CASE shelf = SHELF_READING -> KIND_READING
                    [] shelf = SHELF_READ -> KIND_READ
                    [] OTHER -> KIND_WANT_TO_READ]]

\* if ownListId is not None: LUBIMYCZYTAC_TO_NAKANAPIE[SHELF_OWN] = ownListId
MappingFor(own) ==
    IF own = NoList THEN BaseMapping
    ELSE [shelf \in DOMAIN BaseMapping \cup {SHELF_OWN} |->
            IF shelf = SHELF_OWN THEN [list |-> own] ELSE BaseMapping[shelf]]

\* isinstance(naKanapieExpected, str) / isinstance(naKanapieExpected, int)
IsKind(m, shelf) == shelf \in DOMAIN m /\ "kind" \in DOMAIN m[shelf]
IsList(m, shelf) == shelf \in DOMAIN m /\ "list" \in DOMAIN m[shelf]

\* findKindForBook: the kind of the first shelf, in shelf order, mapped to a kind
RECURSIVE FindKind(_, _)
FindKind(m, shelves) ==
    IF shelves = <<>> THEN NoKind
    ELSE IF IsKind(m, Head(shelves)) THEN m[Head(shelves)].kind
    ELSE FindKind(m, Tail(shelves))

LastKindMutant(m, shelves) ==
    LET mapped == SelectSeq(shelves, LAMBDA s : IsKind(m, s))
    IN  IF mapped = <<>> THEN NoKind ELSE m[mapped[Len(mapped)]].kind

findKindForBook(m, shelves) == FindKind(m, shelves)

\* bookNeedsUpdate's loop: the list ids to add, tested against the B-item's
\* lists as they were on entry
RECURSIVE NewLists(_, _, _)
NewLists(m, shelves, lists) ==
    IF shelves = <<>> THEN <<>>
    ELSE (IF IsList(m, Head(shelves)) /\ ~Contains(lists, m[Head(shelves)].list)
          THEN <<m[Head(shelves)].list>> ELSE <<>>)
         \o NewLists(m, Tail(shelves), lists)

\* bookNeedsUpdate's loop: shelves with no mapping entry join ignoredShelves
UnknownShelves(m, shelves) == { s \in SeqToSet(shelves) : s \notin DOMAIN m }

ReplaceListsMutant(lists, newLists) == newLists

\* naKanapieBook.lists.extend(newLists)
ExtendLists(lists, newLists) == lists \o newLists

\* the condition under which bookNeedsUpdate returns the book
NeedsUpdate(newKind, newLists) == newKind # NoKind \/ Len(newLists) > 0

\* bookNeedsUpdate: [update, book (the B-item after the in-place mutation)]
bookNeedsUpdate(m, lcBook, nkBook) ==
    LET newKind == findKindForBook(m, lcBook.shelves)
        newLists == NewLists(m, lcBook.shelves, nkBook.lists)
    IN  IF NeedsUpdate(newKind, newLists)
        THEN [update |-> TRUE,
              book |-> [nkBook EXCEPT !.kind = newKind,
                                      !.lists = ExtendLists(nkBook.lists, newLists)]]
        ELSE [update |-> FALSE, book |-> nkBook]

\* {book.isbn: book for book in bs if book.isbn is not None}: the keys, and for
\* each key the position of the book the dict holds (the last one with that key)
IsbnKeys(bs) == { bs[i].isbn : i \in 1..Len(bs) } \ {None}
IsbnIndex(bs, isbn) ==
    CHOOSE i \in 1..Len(bs) :
        /\ bs[i].isbn = isbn
        /\ \A j \in 1..Len(bs) : bs[j].isbn = isbn => j <= i

AllKeysMutant(keysA, keysB) == keysA

\* set(a.keys()) & set(b.keys())
SharedIsbns(keysA, keysB) == keysA \cap keysB

\* set(a.keys()) - set(b.keys())
MissingIsbns(keysA, keysB) == keysA \ keysB

RECURSIVE SetToSeq(_)
SetToSeq(S) ==
    IF S = {} THEN <<>>
    ELSE LET x == CHOOSE y \in S : TRUE IN <<x>> \o SetToSeq(S \ {x})

\* a coroutine handed to tqdm.gather
Task(op, isbn, kind) ==
    [op |-> op, isbn |-> isbn, kind |-> kind, st |-> "pending",
     search |-> "none", create |-> "none"]

AllDone == \A t \in 1..Len(tasks) : tasks[t].st = "done"

\* updateNaKanapieBookStatus's request body
UpdateCall(book) == [id |-> book.id, kind |-> book.kind, lists |-> book.lists]

\* items of A and of B the runs are started with
ShelfLists ==
    { <<SHELF_READ>>, <<SHELF_OWN>>, <<SHELF_OTHER>>,
      <<SHELF_READING, SHELF_OTHER, SHELF_READ, SHELF_OWN>> }

NkStates ==
    { [kind |-> KIND_READ, lists |-> <<>>],
      [kind |-> KIND_WANT_TO_READ, lists |-> <<OtherList>>],
      [kind |-> KIND_READ, lists |-> <<OtherList, OwnList>>] }

\* catalog A built from a choice per key (<<>> = the key is not in A)
RECURSIVE LcBooksOf(_, _)
LcBooksOf(choice, i) ==
    IF i > NumKeys THEN <<>>
    ELSE (IF choice[i] = <<>> THEN <<>>
          ELSE <<[isbn |-> Key(i), shelves |-> choice[i]]>>)
         \o LcBooksOf(choice, i + 1)

\* the choice "B does not hold this key"
NkAbsent == [kind |-> "absent", lists |-> <<>>]

\* catalog B built from a choice per key (NkAbsent = the key is not in B)
RECURSIVE NkBooksOf(_, _)
NkBooksOf(choice, i) ==
    IF i > NumKeys THEN <<>>
    ELSE (IF choice[i] = NkAbsent THEN <<>>
          ELSE <<[id |-> 100 + i, isbn |-> Key(i),
                  kind |-> choice[i].kind, lists |-> choice[i].lists]>>)
         \o NkBooksOf(choice, i + 1)

\* an item of B under a key that A never holds
NkOnlyBook == [id |-> 100, isbn |-> <<"0">>, kind |-> KIND_READING, lists |-> <<>>]

RowSeqs == UNION { [1..n -> Keys] : n \in 0..MaxRows }

\* the collections readLubimyCzytac and readNaKanapie can return
LcCollections == { LcBooksOf(choice, 1) : choice \in [1..NumKeys -> ShelfLists \cup {<<>>}] }
NkCollections ==
    { extra \o NkBooksOf(choice, 1) :
        extra \in {<<>>, <<NkOnlyBook>>}, choice \in [1..NumKeys -> NkStates \cup {NkAbsent}] }

\* the collections downloadLubimyCzytac and downloadNaKanapie can return
LcDownloads ==
    { LcBooksOf(choice, 1) :
        choice \in [1..NumKeys -> {<<SHELF_READING, SHELF_OTHER, SHELF_READ, SHELF_OWN>>, <<>>}] }
NkDownloads ==
    { extra \o NkBooksOf(choice, 1) :
        extra \in {<<>>, <<NkOnlyBook>>},
        choice \in [1..NumKeys -> {[kind |-> KIND_WANT_TO_READ, lists |-> <<OtherList>>],
                                   NkAbsent}] }

\* the state in which an entry point starts, its snapshots read as lcs and nks
InitRun(lcs, nks) ==
    /\ pc = "login"
    /\ session = "none"
    /\ program \in {"import", "csv"}
    /\  /\ naKanapieBooks \in nks
        /\ IF program = "import"
           THEN /\ lubimyCzytacBooks \in lcs
                /\ ownListId \in {NoList, OwnList}
                /\ isbnsToProcess = <<>>
           ELSE /\ lubimyCzytacBooks = <<>>
                /\ ownListId = OwnList
                /\ isbnsToProcess \in RowSeqs
    /\ naKanapieBefore = naKanapieBooks
    /\ mapping = BaseMapping
    /\ ignoredShelves = {}
    /\ tasks = <<>>
    /\ isbnsNotFound = <<>>
    /\ failedAdds = <<>>
    /\ updateCalls = <<>>
    /\ searchCalls = <<>>
    /\ createCalls = <<>>
    /\ savedNaKanapie = <<>>
    /\ CrawlIdle
    /\ NormIdle
    /\ FileIdle

InitSync == InitRun(LcCollections, NkCollections)

\* Snapshots with books that have no ISBN and books that share one: the
\* crawlers save both (an item whose detail page has no ISBN; two editions
\* under one ISBN).
KeylessLc == [isbn |-> None, shelves |-> <<SHELF_READ>>]
DuplicateLc == [isbn |-> Key(1), shelves |-> <<SHELF_WANT_TO_READ>>]
KeylessNk == [id |-> 198, isbn |-> None, kind |-> KIND_WANT_TO_READ, lists |-> <<>>]
DuplicateNk == [id |-> 199, isbn |-> Key(1), kind |-> KIND_WANT_TO_READ, lists |-> <<>>]

LcJoinCollections ==
    { LcBooksOf(choice, 1) \o extra :
        choice \in [1..NumKeys -> {<<SHELF_READ>>, <<>>}],
        extra \in {<<>>, <<KeylessLc>>, <<DuplicateLc>>, <<KeylessLc, DuplicateLc>>} }
NkJoinCollections ==
    { NkBooksOf(choice, 1) \o extra :
        choice \in [1..NumKeys -> {[kind |-> KIND_READING, lists |-> <<>>], NkAbsent}],
        extra \in {<<>>, <<KeylessNk>>, <<DuplicateNk>>, <<KeylessNk, DuplicateNk>>} }

InitJoin == InitRun(LcJoinCollections, NkJoinCollections)

\* importLubimyCzytacToNaKanapie's two dict comprehensions: the books they
\* leave out (`if book.isbn is not None`), the keys under which a later book
\* replaces an earlier one, and what the run prints or returns about either:
\* nothing.
Excluded(bs) == { i \in 1..Len(bs) : bs[i].isbn = None }
ExcludedReported(bs) == {}
Collisions(bs) ==
    { k \in IsbnKeys(bs) :
        \E i, j \in 1..Len(bs) : i # j /\ bs[i].isbn = k /\ bs[j].isbn = k }
CollisionsReported(bs) == {}

LoginIgnoredMutant(ok) == FALSE

\* logInToNaKanapie: response.raise_for_status()
LoginRaises(ok) == ~ok

\* syncSharedBooks up to its gather: one syncSharedBook task per shared key
SyncTasks(lcBooks, nkBooks) ==
    LET shared == SetToSeq(SharedIsbns(IsbnKeys(lcBooks), IsbnKeys(nkBooks)))
    IN  [t \in 1..Len(shared) |-> Task("sync", shared[t], NoKind)]

\* importLubimyCzytacToNaKanapie from the two reads to its next await: a
\* catalog read empty is downloaded first, A before B; with both collections
\* in hand the dicts are built and syncSharedBooks starts its tasks.
AfterRead(lcBooks, nkBooks) ==
    IF Len(lcBooks) = 0
    THEN pc' = "downloadLC" /\ tasks' = <<>>
    ELSE IF Len(nkBooks) = 0
    THEN pc' = "downloadNK" /\ tasks' = <<>>
    ELSE pc' = "sync" /\ tasks' = SyncTasks(lcBooks, nkBooks)

\* logInToNaKanapie answers; on success the run goes on, without suspending,
\* to its next await: the import through the injection of the mapping and the
\* reads (AfterRead), the CSV run to its processIsbn tasks.
LogIn(ok) ==
    /\ pc = "login"
    /\ session' = IF ok THEN "authenticated" ELSE "none"
    /\ IF LoginRaises(ok)
       THEN /\ pc' = "aborted"
            /\ UNCHANGED <<mapping, tasks>>
       ELSE IF program = "import"
       THEN /\ mapping' = MappingFor(ownListId)
            /\ AfterRead(lubimyCzytacBooks, naKanapieBooks)
       ELSE /\ tasks' = [t \in 1..Len(isbnsToProcess) |->
                           Task("csv", isbnsToProcess[t], KIND_WANT_TO_READ)]
            /\ pc' = "csv"
            /\ UNCHANGED mapping
    /\ UNCHANGED <<program, lubimyCzytacBooks, naKanapieBooks, naKanapieBefore, ownListId,
                   ignoredShelves, isbnsToProcess, isbnsNotFound, failedAdds,
                   updateCalls, searchCalls, createCalls, savedNaKanapie>>

\* downloadLubimyCzytac(output, profileId) returns: the crawl of SpecCrawl,
\* here only as the phase that yields the collection of A or fails
DownloadLubimyCzytac(ok, result) ==
    /\ pc = "downloadLC"
    /\ IF ~ok
       THEN /\ pc' = "aborted"
            /\ UNCHANGED <<lubimyCzytacBooks, tasks>>
       ELSE /\ lubimyCzytacBooks' = result
            /\ IF Len(naKanapieBooks) = 0
               THEN pc' = "downloadNK" /\ tasks' = <<>>
               ELSE pc' = "sync" /\ tasks' = SyncTasks(result, naKanapieBooks)
    /\ UNCHANGED <<session, program, naKanapieBooks, naKanapieBefore, ownListId,
                   mapping, ignoredShelves, isbnsToProcess, isbnsNotFound, failedAdds,
                   updateCalls, searchCalls, createCalls, savedNaKanapie>>

\* downloadNaKanapie(output, username) returns with the collection of B
DownloadNaKanapie(ok, result) ==
    /\ pc = "downloadNK"
    /\ IF ~ok
       THEN /\ pc' = "aborted"
            /\ UNCHANGED <<naKanapieBooks, naKanapieBefore, tasks>>
       ELSE /\ naKanapieBooks' = result
            /\ naKanapieBefore' = result
            /\ pc' = "sync"
            /\ tasks' = SyncTasks(lubimyCzytacBooks, result)
    /\ UNCHANGED <<session, program, lubimyCzytacBooks, ownListId,
                   mapping, ignoredShelves, isbnsToProcess, isbnsNotFound, failedAdds,
                   updateCalls, searchCalls, createCalls, savedNaKanapie>>

\* syncSharedBook up to its await: bookNeedsUpdate, then the update request
SyncSharedBook(t) ==
    /\ pc = "sync"
    /\ t \in 1..Len(tasks)
    /\ tasks[t].op = "sync"
    /\ tasks[t].st = "pending"
    /\ LET a == lubimyCzytacBooks[IsbnIndex(lubimyCzytacBooks, tasks[t].isbn)]
           i == IsbnIndex(naKanapieBooks, tasks[t].isbn)
           r == bookNeedsUpdate(mapping, a, naKanapieBooks[i])
       IN  /\ ignoredShelves' = ignoredShelves \cup UnknownShelves(mapping, a.shelves)
           /\ naKanapieBooks' = [naKanapieBooks EXCEPT ![i] = r.book]
           /\ IF r.update
              THEN /\ updateCalls' = Append(updateCalls, UpdateCall(r.book))
                   /\ tasks' = [tasks EXCEPT ![t].st = "updating"]
              ELSE /\ tasks' = [tasks EXCEPT ![t].st = "done"]
                   /\ UNCHANGED updateCalls
    /\ UNCHANGED <<session, program, lubimyCzytacBooks, naKanapieBefore, ownListId, mapping,
                   isbnsToProcess, isbnsNotFound, failedAdds, searchCalls,
                   createCalls, savedNaKanapie, pc>>

\* updateNaKanapieBookStatus's response: raise_for_status() propagates through
\* the gather out of the run
UpdateResponse(t, ok) ==
    /\ pc \in {"sync", "csv"}
    /\ t \in 1..Len(tasks)
    /\ tasks[t].st = "updating"
    /\ IF ok
       THEN /\ tasks' = [tasks EXCEPT ![t].st = "done"]
            /\ UNCHANGED pc
       ELSE /\ tasks' = [tasks EXCEPT ![t].st = "failed"]
            /\ pc' = "aborted"
    /\ UNCHANGED <<session, program, lubimyCzytacBooks, naKanapieBooks, naKanapieBefore, ownListId,
                   mapping, ignoredShelves, isbnsToProcess, isbnsNotFound,
                   failedAdds, updateCalls, searchCalls, createCalls,
                   savedNaKanapie>>

\* addMissingBooks up to its gather: one addMissingBook per missing ISBN, its
\* kind argument evaluated here
StartAddMissing ==
    /\ pc = "sync"
    /\ AllDone
    /\ LET missing == SetToSeq(MissingIsbns(IsbnKeys(lubimyCzytacBooks),
                                            IsbnKeys(naKanapieBooks)))
       IN  tasks' = [t \in 1..Len(missing) |->
                       Task("add", missing[t],
                            findKindForBook(mapping,
                                lubimyCzytacBooks[IsbnIndex(lubimyCzytacBooks,
                                                            missing[t])].shelves))]
    /\ isbnsNotFound' = <<>>
    /\ pc' = "add"
    /\ UNCHANGED <<session, program, lubimyCzytacBooks, naKanapieBooks, naKanapieBefore, ownListId,
                   mapping, ignoredShelves, isbnsToProcess, failedAdds,
                   updateCalls, searchCalls, createCalls, savedNaKanapie>>

DropNotFoundMutant(list, isbn) == list

\* isbnsNotFound.append(isbn)
RecordNotFound(list, isbn) == Append(list, isbn)

\* addNaKanapieBook's request body: the book and bundle the search found for
\* the ISBN, and the kind; it has no "lists" member
CreateCall(isbn, kind) == [isbn |-> isbn, kind |-> kind]

\* addMissingBook from its start to the await of addNaKanapieBook: the search
\* answers `result`
AddMissingSearch(t, result) ==
    /\ searchCalls' = Append(searchCalls, tasks[t].isbn)
    /\ CASE result = "found" ->
              /\ createCalls' = Append(createCalls,
                                       CreateCall(tasks[t].isbn, tasks[t].kind))
              /\ tasks' = [tasks EXCEPT ![t].st = "creating", ![t].search = "found"]
              /\ UNCHANGED <<isbnsNotFound, pc>>
         [] result = "notfound" ->
              /\ isbnsNotFound' = RecordNotFound(isbnsNotFound, tasks[t].isbn)
              /\ tasks' = [tasks EXCEPT ![t].st = "done", ![t].search = "notfound"]
              /\ UNCHANGED <<createCalls, pc>>
         [] OTHER -> \* raise_for_status() in searchNaKanapieBook
              /\ tasks' = [tasks EXCEPT ![t].st = "failed", ![t].search = "error"]
              /\ pc' = "aborted"
              /\ UNCHANGED <<createCalls, isbnsNotFound>>

SearchResults == {"found", "notfound", "error"}

AddMissingBook(t, result) ==
    /\ pc = "add"
    /\ t \in 1..Len(tasks)
    /\ tasks[t].op = "add"
    /\ tasks[t].st = "pending"
    /\ AddMissingSearch(t, result)
    /\ UNCHANGED <<session, program, lubimyCzytacBooks, naKanapieBooks, naKanapieBefore, ownListId,
                   mapping, ignoredShelves, isbnsToProcess, failedAdds,
                   updateCalls, savedNaKanapie>>

PropagateMutant == [st |-> "failed", abort |-> TRUE, printed |-> FALSE]

\* except Exception as e: print(f"Failed to add book with isbn {isbn}: {e}")
CreateFailure == [st |-> "done", abort |-> FALSE, printed |-> TRUE]

\* addNaKanapieBook's response inside addMissingBook's try
CreateResponse(t, ok) ==
    /\ pc \in {"add", "csv"}
    /\ t \in 1..Len(tasks)
    /\ tasks[t].st = "creating"
    /\ IF ok
       THEN /\ tasks' = [tasks EXCEPT ![t].st = "done", ![t].create = "ok"]
            /\ UNCHANGED <<failedAdds, pc>>
       ELSE /\ tasks' = [tasks EXCEPT ![t].st = CreateFailure.st,
                                      ![t].create = "failed"]
            /\ failedAdds' = IF CreateFailure.printed
                             THEN Append(failedAdds, tasks[t].isbn) ELSE failedAdds
            /\ pc' = IF CreateFailure.abort THEN "aborted" ELSE pc
    /\ UNCHANGED <<session, program, lubimyCzytacBooks, naKanapieBooks, naKanapieBefore, ownListId,
                   mapping, ignoredShelves, isbnsToProcess, isbnsNotFound,
                   updateCalls, searchCalls, createCalls, savedNaKanapie>>

\* saveNaKanapie(output, naKanapieBooks), reached when addMissingBooks returns
SaveNaKanapie ==
    /\ pc = "add"
    /\ AllDone
    /\ savedNaKanapie' = sortBooksByIsbn(naKanapieBooks)
    /\ pc' = "recrawl"
    /\ UNCHANGED <<session, program, lubimyCzytacBooks, naKanapieBooks, naKanapieBefore, ownListId,
                   mapping, ignoredShelves, isbnsToProcess, tasks, isbnsNotFound,
                   failedAdds, updateCalls, searchCalls, createCalls>>

AlwaysAppendMutant(book, own) == TRUE

\* processIsbn: if ownListId not in book.lists
NotInOwnList(book, own) == ~Contains(book.lists, own)

\* csvOwnedToNaKanapie.processIsbn up to its first await
ProcessIsbn(t, result) ==
    /\ pc = "csv"
    /\ t \in 1..Len(tasks)
    /\ tasks[t].op = "csv"
    /\ tasks[t].st = "pending"
    /\ IF tasks[t].isbn \notin { naKanapieBooks[i].isbn : i \in 1..Len(naKanapieBooks) }
       THEN /\ AddMissingSearch(t, result)
            /\ UNCHANGED <<naKanapieBooks, updateCalls>>
       ELSE LET i == IsbnIndex(naKanapieBooks, tasks[t].isbn)
                book == naKanapieBooks[i]
            IN  /\ result = "found"
                /\ IF NotInOwnList(book, ownListId)
                   THEN /\ naKanapieBooks' =
                              [naKanapieBooks EXCEPT ![i].lists = Append(book.lists, ownListId)]
                        /\ updateCalls' = Append(updateCalls, UpdateCall(naKanapieBooks'[i]))
                        /\ tasks' = [tasks EXCEPT ![t].st = "updating"]
                   ELSE /\ tasks' = [tasks EXCEPT ![t].st = "done"]
                        /\ UNCHANGED <<naKanapieBooks, updateCalls>>
                /\ UNCHANGED <<searchCalls, createCalls, isbnsNotFound, pc>>
    /\ UNCHANGED <<session, program, lubimyCzytacBooks, naKanapieBefore, ownListId, mapping,
                   ignoredShelves, isbnsToProcess, failedAdds, savedNaKanapie>>

\* csvOwnedToNaKanapie's gather returns
CsvGathered ==
    /\ pc = "csv"
    /\ AllDone
    /\ pc' = "recrawl"
    /\ UNCHANGED <<session, program, lubimyCzytacBooks, naKanapieBooks, naKanapieBefore, ownListId,
                   mapping, ignoredShelves, isbnsToProcess, tasks, isbnsNotFound,
                   failedAdds, updateCalls, searchCalls, createCalls, savedNaKanapie>>

\* the closing downloadNaKanapie(output, usernameNaKanapie): the crawl of
\* SpecCrawl, here only as the phase that ends the run or fails
Recrawl(ok) ==
    /\ pc = "recrawl"
    /\ pc' = IF ok THEN "done" ELSE "aborted"
    /\ UNCHANGED <<session, program, lubimyCzytacBooks, naKanapieBooks, naKanapieBefore, ownListId,
                   mapping, ignoredShelves, isbnsToProcess, tasks, isbnsNotFound,
                   failedAdds, updateCalls, searchCalls, createCalls, savedNaKanapie>>

NextSync ==
    \/ \E ok \in BOOLEAN : LogIn(ok) /\ UNCHANGED <<crawlVars, normVars, fileVars>>
    \/ /\ pc = "downloadLC"
       /\ \E ok \in BOOLEAN, result \in LcDownloads :
             DownloadLubimyCzytac(ok, result) /\ UNCHANGED <<crawlVars, normVars, fileVars>>
    \/ /\ pc = "downloadNK"
       /\ \E ok \in BOOLEAN, result \in NkDownloads :
             DownloadNaKanapie(ok, result) /\ UNCHANGED <<crawlVars, normVars, fileVars>>
    \/ \E t \in 1..Len(tasks) : SyncSharedBook(t) /\ UNCHANGED <<crawlVars, normVars, fileVars>>
    \/ \E t \in 1..Len(tasks), ok \in BOOLEAN : UpdateResponse(t, ok) /\ UNCHANGED <<crawlVars, normVars, fileVars>>
    \/ StartAddMissing /\ UNCHANGED <<crawlVars, normVars, fileVars>>
    \/ \E t \in 1..Len(tasks), r \in SearchResults : AddMissingBook(t, r) /\ UNCHANGED <<crawlVars, normVars, fileVars>>
    \/ \E t \in 1..Len(tasks), ok \in BOOLEAN : CreateResponse(t, ok) /\ UNCHANGED <<crawlVars, normVars, fileVars>>
    \/ SaveNaKanapie /\ UNCHANGED <<crawlVars, normVars, fileVars>>
    \/ \E t \in 1..Len(tasks), r \in SearchResults : ProcessIsbn(t, r) /\ UNCHANGED <<crawlVars, normVars, fileVars>>
    \/ CsvGathered /\ UNCHANGED <<crawlVars, normVars, fileVars>>
    \/ \E ok \in BOOLEAN : Recrawl(ok) /\ UNCHANGED <<crawlVars, normVars, fileVars>>

SpecSync == InitSync /\ [][NextSync]_vars

\* Reconciliation over snapshots with keyless and same-key books.
SpecJoin == InitJoin /\ [][NextSync]_vars

\* normalizeIsbn on its own: raw strings over a digit, the hyphen, the space
\* and another whitespace character.
IsbnChars == {"1", "-", " ", "\t"}
RawIsbns == UNION { [1..n -> IsbnChars] : n \in 0..MaxLen }

InitNormalize ==
    /\ isbnPair \in RawIsbns \X RawIsbns
    /\ normalized = <<>>
    /\ FileIdle
    /\ SyncIdle
    /\ CrawlIdle

\* normalizeIsbn applied to both strings, and once more to the first key
Normalize ==
    /\ normalized = <<>>
    /\ normalized' = <<normalizeIsbn(isbnPair[1]), normalizeIsbn(isbnPair[2]),
                       normalizeIsbn(normalizeIsbn(isbnPair[1]))>>
    /\ UNCHANGED <<isbnPair, crawlVars, syncVars, fileVars>>

NextNormalize == Normalize

SpecNormalize == InitNormalize /\ [][NextNormalize]_vars

\* a first run: no snapshot of A, none or a small one of B
InitFirstRun == InitRun({<<>>}, {<<>>, <<NkOnlyBook>>})

\* The snapshot file: orjson.dumps of the dataclasses, orjson.loads and the
\* dataclass constructor.  A JSON value is [t, v]: its type and its content.
JsonNull == [t |-> "null", v |-> <<>>]
JsonString(str) == [t |-> "string", v |-> str]
JsonNumber(n) == [t |-> "number", v |-> n]

NullAsEmptyMutant(book) ==
    [id |-> JsonNumber(book.id),
     isbn |-> IF book.isbn = None THEN JsonString(<<>>) ELSE JsonString(book.isbn),
     data |-> JsonString(book.data)]

\* orjson.dumps of one book: a JSON object with one member per dataclass field
dumpsBook(book) ==
    [id |-> JsonNumber(book.id),
     isbn |-> IF book.isbn = None THEN JsonNull ELSE JsonString(book.isbn),
     data |-> JsonString(book.data)]

\* NaKanapieBook(**book) for a JSON object of orjson.loads
loadsBook(object) ==
    [id |-> object.id.v,
     isbn |-> IF object.isbn.t = "null" THEN None ELSE object.isbn.v,
     data |-> object.data.v]

\* saveNaKanapie: outputJson.write_bytes(orjson.dumps(sortBooksByIsbn(books)))
saveNaKanapie(bs) ==
    LET sorted == sortBooksByIsbn(bs)
    IN  [exists |-> TRUE, content |-> [i \in 1..Len(sorted) |-> dumpsBook(sorted[i])]]

\* readNaKanapie: [] unless the file exists
readNaKanapie(f) ==
    IF f.exists THEN [i \in 1..Len(f.content) |-> loadsBook(f.content[i])] ELSE <<>>

\* the book collections handed to the save: ids 1..n, any ISBN or none
StoredIsbns == {None, <<>>, <<"1", "2">>, <<"3">>}
BookChoices == [isbn : StoredIsbns, data : {"v1", "v2"}]
Collections ==
    UNION { { [i \in 1..n |-> [id |-> i, isbn |-> c[i].isbn, data |-> c[i].data]] :
                c \in [1..n -> BookChoices] } : n \in 0..MaxItems }

InitSnapshot ==
    /\ collection \in Collections
    /\ file = NoFile
    /\ loaded = <<>>
    /\ filePc = "start"
    /\ SyncIdle
    /\ CrawlIdle
    /\ isbnPair = <<<<>>, <<>>>>
    /\ normalized = <<>>

Save ==
    /\ filePc = "start"
    /\ file' = saveNaKanapie(collection)
    /\ filePc' = "saved"
    /\ UNCHANGED <<collection, loaded, crawlVars, syncVars, normVars>>

Load ==
    /\ filePc \in {"start", "saved"}
    /\ loaded' = readNaKanapie(file)
    /\ filePc' = IF filePc = "saved" THEN "loaded" ELSE "loadedNone"
    /\ UNCHANGED <<collection, file, crawlVars, syncVars, normVars>>

NextSnapshot == Save \/ Load

SpecSnapshot == InitSnapshot /\ [][NextSnapshot]_vars

\* A run of any entry point: a crawl (lubimyczytac.py, nakanapie.py) or a
\* first reconciliation run (importLubimyCzytacToNaKanapie.py, which then
\* downloads both catalogs; csvOwnedToNaKanapie.py).
SpecPrograms == (InitCrawl \/ InitFirstRun) /\ [][NextCrawl \/ NextSync]_vars

-----------------------------------------------------------------------------
(* Claims about the crawl, checked under SpecCrawl *)

\* the crawl has returned its collection to its caller
CrawlReturned == crawlPc = "enrich" \/ (crawlPc = "idle" /\ crawlsDone > 0)

BookIds == { books[i].id : i \in 1..Len(books) }

\* C1: every item of the crawl's collection whose sourceId the previous
\* snapshot holds with an identity key K has had no detail fetch issued for it
\* in this crawl and carries K as its identity key.
C1_CacheHit ==
    \A i \in 1..Len(books) : \A j \in 1..Len(previousResult) :
        (previousResult[j].id = books[i].id /\ previousResult[j].isbn # None)
            => /\ books[i].id \notin detailFetched
               /\ books[i].isbn = previousResult[j].isbn

\* a second crawl has been saved in which one item was served from the cache
\* while another, unresolved in the previous run, was fetched again
C1_Witness ==
    /\ crawlPc = "idle"
    /\ crawlsDone = 2
    /\ detailFetched # {}
    /\ \E i \in 1..Len(books) : \E j \in 1..Len(previousResult) :
          /\ previousResult[j].id = books[i].id
          /\ previousResult[j].isbn = <<"1", "2">>
          /\ books[i].isbn = <<"1", "2">>

\* C2: a crawl of a listing of N items, whose listing requests all succeed,
\* returns (it does not end in an exception) and returns exactly the N items,
\* each sourceId once, whatever the order the page fetches completed in.
C2_CrawlerCompleteness ==
    /\ crawlPc # "crashed"
    /\ CrawlReturned =>
          /\ Len(books) = remoteCount
          /\ BookIds = 1..remoteCount

\* C2 for listings that are not empty: the part of the claim the code keeps.
C2_CompleteWhenNonEmpty ==
    /\ crawlPc = "crashed" => remoteCount = 0 /\ catalog = "LC"
    /\ CrawlReturned =>
          /\ Len(books) = remoteCount
          /\ BookIds = 1..remoteCount

\* C9: no detail response ends the crawl: a failing detail fetch is recorded
\* for its item, the crawl goes on to return the collection and save it.
C9_EnrichmentFailureContained == crawlPc # "detailFailed"

Saved == crawlPc = "idle" /\ crawlsDone > 0

\* C15: a zero-item page and a not-found page end the crawl without an error,
\* the first page included: an empty catalog is crawled to an empty collection
\* and saved as an empty snapshot.
C15_StopConditionsTerminate ==
    /\ crawlPc # "crashed"
    /\ (Saved /\ remoteCount = 0) => snapshot = <<>>

SnapshotIds == { snapshot[i].id : i \in 1..Len(snapshot) }

\* C16: after a crawl and save the snapshot holds exactly the items the remote
\* listing now holds, each with what the listing now says of it; of the
\* previous snapshot only the identity key is carried forward, by sourceId.
C16_SnapshotReplaced ==
    Saved =>
        /\ Len(snapshot) = remoteCount
        /\ SnapshotIds = 1..remoteCount
        /\ \A i \in 1..Len(snapshot) :
              /\ snapshot[i].data = remoteData
              /\ \A j \in 1..Len(previousResult) :
                    (previousResult[j].id = snapshot[i].id /\ previousResult[j].isbn # None)
                        => snapshot[i].isbn = previousResult[j].isbn

\* C16 happens: the second crawl saved a listing that lost an item and says
\* something new of the others, one of which kept its key from the snapshot.
C16_Witness ==
    /\ Saved
    /\ crawlsDone = 2
    /\ remoteData = "v2"
    /\ \E j \in 1..Len(previousResult) : previousResult[j].id > remoteCount
    /\ \E i \in 1..Len(snapshot) : \E j \in 1..Len(previousResult) :
          /\ previousResult[j].id = snapshot[i].id
          /\ previousResult[j].data = "v1"
          /\ previousResult[j].isbn = <<"1", "2">>
          /\ snapshot[i].isbn = <<"1", "2">>
          /\ snapshot[i].data = "v2"

\* C17: the save writes every item once, in non-decreasing identity-key order
\* with the items without a key first, and a second crawl of the same catalog
\* contents persists the same sequence whatever order its pages completed in.
C17_StableSortedSave ==
    Saved =>
        /\ SnapshotIds = BookIds
        /\ Len(snapshot) = Cardinality(SnapshotIds)
        /\ \A i, j \in 1..Len(snapshot) :
              i < j => /\ ~StrLess(SortKey(snapshot[j]), SortKey(snapshot[i]))
                       /\ snapshot[j].isbn = None => snapshot[i].isbn = None
        /\ (crawlsDone > 1 /\ SeqToSet(snapshot) = SeqToSet(previousResult))
              => snapshot = previousResult

SentinelKeys == {Placeholder, normalizeIsbn(Placeholder)}

\* C20: no item of a crawl's collection or of the saved snapshot carries the
\* all-zero "no ISBN assigned" value, as written or normalized, as its
\* identity key, whether a detail page or the previous snapshot brought it.
C20_PlaceholderAbsent ==
    /\ \A i \in 1..Len(books) : books[i].isbn \notin SentinelKeys
    /\ \A i \in 1..Len(snapshot) : snapshot[i].isbn \notin SentinelKeys

-----------------------------------------------------------------------------
(* Claims about reconciliation, checked under SpecSync *)

KeysA == IsbnKeys(lubimyCzytacBooks)
KeysB == IsbnKeys(naKanapieBooks)

TaskIsbns(op) == { tasks[t].isbn : t \in { u \in 1..Len(tasks) : tasks[u].op = op } }

\* the B-item, as loaded, that an update call addresses
BeforeOf(call) ==
    naKanapieBefore[CHOOSE i \in 1..Len(naKanapieBefore) :
                        naKanapieBefore[i].id = call.id]

\* the A-item and the loaded B-item a sync task pairs
TaskLc(t) == lubimyCzytacBooks[IsbnIndex(lubimyCzytacBooks, tasks[t].isbn)]
TaskNkBefore(t) == naKanapieBefore[IsbnIndex(naKanapieBefore, tasks[t].isbn)]

CallsTo(id) == SelectSeq(updateCalls, LAMBDA c : c.id = id)

\* C3: the update path handles exactly keys(A) \cap keys(B), the create path
\* exactly keys(A) \ keys(B), one task per key; every update call addresses the
\* B-item of a shared key, every search and create call a key of A that B
\* lacks; an item whose key only B holds receives no call.
C3_Partition ==
    program = "import" =>
        /\ pc = "sync" =>
              /\ TaskIsbns("sync") = KeysA \cap KeysB
              /\ Len(tasks) = Cardinality(KeysA \cap KeysB)
        /\ pc \in {"add", "recrawl", "done"} =>
              /\ TaskIsbns("add") = KeysA \ KeysB
              /\ Len(tasks) = Cardinality(KeysA \ KeysB)
        /\ (KeysA \cap KeysB) \cap (KeysA \ KeysB) = {}
        /\ \A c \in SeqToSet(updateCalls) : BeforeOf(c).isbn \in KeysA \cap KeysB
        /\ \A k \in SeqToSet(searchCalls) : k \in KeysA /\ k \notin KeysB
        /\ \A c \in SeqToSet(createCalls) : c.isbn \in KeysA /\ c.isbn \notin KeysB
        /\ \A i \in 1..Len(naKanapieBefore) :
              naKanapieBefore[i].isbn \notin KeysA =>
                  /\ CallsTo(naKanapieBefore[i].id) = <<>>
                  /\ ~Contains(searchCalls, naKanapieBefore[i].isbn)
                  /\ \A c \in SeqToSet(createCalls) : c.isbn # naKanapieBefore[i].isbn

\* a finished import that updated a shared item and created a missing one
\* while B held an item under a key of its own
C3_Witness ==
    /\ program = "import"
    /\ pc = "done"
    /\ updateCalls # <<>>
    /\ createCalls # <<>>
    /\ \E i \in 1..Len(naKanapieBefore) : naKanapieBefore[i].isbn \notin KeysA

\* the shelves of an A-item that the mapping sends to a status, in shelf order
StatusShelves(t) == SelectSeq(TaskLc(t).shelves, LAMBDA s : IsKind(mapping, s))
MapsToList(t) == \E s \in SeqToSet(TaskLc(t).shelves) : IsList(mapping, s)

\* C4 as stated: for a shared key, for every status S that a tag of the A-item
\* maps to and that differs from the B-item's status, exactly one update call
\* is issued for the B-item, it carries S, and its membership list is the
\* B-item's own when no A tag maps to a membership tag.
C4_MappingEveryTag ==
    \A t \in 1..Len(tasks) :
        (tasks[t].op = "sync" /\ tasks[t].st # "pending") =>
            \A s \in SeqToSet(StatusShelves(t)) :
                mapping[s].kind # TaskNkBefore(t).kind =>
                    LET calls == CallsTo(TaskNkBefore(t).id)
                    IN  /\ Len(calls) = 1
                        /\ calls[1].kind = mapping[s].kind
                        /\ ~MapsToList(t) => calls[1].lists = TaskNkBefore(t).lists

\* C4 amended: S is the status of the first tag, in the A-item's shelf order,
\* that maps to a status.
C4_MappingFirstTag ==
    \A t \in 1..Len(tasks) :
        (tasks[t].op = "sync" /\ tasks[t].st # "pending"
            /\ StatusShelves(t) # <<>>
            /\ mapping[StatusShelves(t)[1]].kind # TaskNkBefore(t).kind) =>
                LET calls == CallsTo(TaskNkBefore(t).id)
                IN  /\ Len(calls) = 1
                    /\ calls[1].kind = mapping[StatusShelves(t)[1]].kind
                    /\ ~MapsToList(t) => calls[1].lists = TaskNkBefore(t).lists

\* a shared item on shelf "read" whose B-item was "want to read" got its one
\* update call, with status have_read and its membership list as it was
C4_Witness ==
    \E t \in 1..Len(tasks) :
        /\ tasks[t].op = "sync"
        /\ tasks[t].st = "done"
        /\ TaskLc(t).shelves = <<SHELF_READ>>
        /\ TaskNkBefore(t).kind = KIND_WANT_TO_READ
        /\ CallsTo(TaskNkBefore(t).id) =
              <<[id |-> TaskNkBefore(t).id, kind |-> KIND_READ,
                 lists |-> <<OtherList>>]>>

\* C5: an update call is issued for a shared item only if a status mapped from
\* the A-item differs from the B-item's status or a membership tag mapped from
\* the A-item is not yet on the B-item.
C5_MinimalMutations ==
    program = "import" =>
        \A c \in SeqToSet(updateCalls) :
            LET b == BeforeOf(c)
                a == lubimyCzytacBooks[IsbnIndex(lubimyCzytacBooks, b.isbn)]
            IN  \/ \E s \in SeqToSet(a.shelves) :
                      IsKind(mapping, s) /\ mapping[s].kind # b.kind
                \/ \E s \in SeqToSet(a.shelves) :
                      IsList(mapping, s) /\ ~Contains(b.lists, mapping[s].list)

\* C6: a missing key whose search answered not-found is in isbnsNotFound and
\* no create call has been issued for it.
C6_UnresolvedReported ==
    program = "import" =>
        \A t \in 1..Len(tasks) :
            tasks[t].search = "notfound" =>
                /\ Contains(isbnsNotFound, tasks[t].isbn)
                /\ \A c \in SeqToSet(createCalls) : c.isbn # tasks[t].isbn

\* a finished import with one key unresolved and another key created
C6_Witness ==
    /\ program = "import"
    /\ pc = "done"
    /\ \E t \in 1..Len(tasks) : tasks[t].search = "notfound"
    /\ \E t \in 1..Len(tasks) : tasks[t].create = "ok"

\* C7 as stated: a missing key whose create call failed is in isbnsNotFound.
C7_CreateFailureUnresolved ==
    program = "import" =>
        \A t \in 1..Len(tasks) :
            tasks[t].create = "failed" => Contains(isbnsNotFound, tasks[t].isbn)

\* C7 amended: a failed create call is caught and printed for its ISBN, the key
\* is not put in isbnsNotFound, the task ends normally and the pass is not
\* aborted by it: a pass is aborted only by a task that raised.
C7_CreateFailureContained ==
    program = "import" =>
        /\ \A t \in 1..Len(tasks) :
              tasks[t].create = "failed" =>
                  /\ tasks[t].st = "done"
                  /\ Contains(failedAdds, tasks[t].isbn)
                  /\ ~Contains(isbnsNotFound, tasks[t].isbn)
        /\ (pc = "aborted" /\ ~AllDone) =>
              \E t \in 1..Len(tasks) : tasks[t].st = "failed" /\ tasks[t].create = "none"

\* a finished import in which one create call failed and another succeeded
C7_Witness ==
    /\ program = "import"
    /\ pc = "done"
    /\ \E t \in 1..Len(tasks) : tasks[t].create = "failed"
    /\ \E t \in 1..Len(tasks) : tasks[t].create = "ok"

\* C8: a task whose update or search call failed does not abort the run.
C8_SiblingIsolation ==
    program = "import" =>
        ((\E t \in 1..Len(tasks) : tasks[t].st = "failed") => pc # "aborted")

\* C10: the membership list of every update call holds every membership tag
\* the addressed B-item had when it was loaded.
C10_MembershipOnlyAdded ==
    \A c \in SeqToSet(updateCalls) :
        \A x \in SeqToSet(BeforeOf(c).lists) : Contains(c.lists, x)

\* an update call that added the own list to a B-item that was on another list
C10_Witness ==
    \E c \in SeqToSet(updateCalls) :
        /\ BeforeOf(c).lists = <<OtherList>>
        /\ c.lists = <<OtherList, OwnList>>

\* C13: in a crawl the snapshot is loaded before the first page fetch and is
\* left as loaded until the save, no detail fetch is issued while a page fetch
\* is outstanding, the save follows the last detail fetch; in a reconciliation
\* run no update, search or create call is issued before both catalogs'
\* collections are in hand.
C13_PhaseOrdering ==
    /\ crawlPc \in {"pages", "enrich"} => previousResult = snapshot
    /\ crawlPc = "pages" => detailPending = {} /\ detailFetched = {}
    /\ (crawlPc = "enrich" \/ detailFetched # {}) => pagesPending = {}
    /\ Saved => /\ pagesPending = {}
                /\ detailPending = {}
                /\ snapshot = sortBooksByIsbn(books)
    /\ pc \in {"login", "downloadLC", "downloadNK"} =>
          /\ tasks = <<>>
          /\ updateCalls = <<>>
          /\ searchCalls = <<>>
          /\ createCalls = <<>>

\* C13 happens: a crawl of several pages fetched details and saved
C13_Witness ==
    /\ Saved
    /\ TotalPages > 1
    /\ detailFetched # {}
    /\ Len(snapshot) = remoteCount

\* C14: an update or create call is issued only with the session that a
\* successful logInToNaKanapie left; a run whose login failed is aborted with
\* no task started and no call issued.
C14_AuthBeforeMutation ==
    /\ (updateCalls # <<>> \/ createCalls # <<>>) => session = "authenticated"
    /\ (pc # "login" /\ session = "none") =>
          /\ pc = "aborted"
          /\ tasks = <<>>
          /\ updateCalls = <<>>
          /\ searchCalls = <<>>
          /\ createCalls = <<>>

\* C14 happens: after a successful login a run issued an update call and a
\* create call
C14_Witness ==
    /\ session = "authenticated"
    /\ updateCalls # <<>>
    /\ createCalls # <<>>

\* C18: at the end of an import every tag without a mapping entry, held by an
\* A-item that took part (under a shared key or a key B lacks), has been
\* reported.
C18_UnknownTagsReported ==
    (program = "import" /\ pc \in {"recrawl", "done"}) =>
        \A i \in 1..Len(lubimyCzytacBooks) :
            (/\ lubimyCzytacBooks[i].isbn # None
             /\ i = IsbnIndex(lubimyCzytacBooks, lubimyCzytacBooks[i].isbn))
                => UnknownShelves(mapping, lubimyCzytacBooks[i].shelves) \subseteq ignoredShelves

DictsBuilt == pc \in {"sync", "add", "recrawl", "done"}

\* C11: in an import a book without an ISBN, of A or of B, gets no task and no
\* update, search or create call, and each such book is reported as excluded.
C11_KeylessExcludedAndReported ==
    program = "import" =>
        /\ \A t \in 1..Len(tasks) : tasks[t].isbn # None
        /\ \A c \in SeqToSet(updateCalls) : BeforeOf(c).isbn # None
        /\ \A k \in SeqToSet(searchCalls) : k # None
        /\ \A c \in SeqToSet(createCalls) : c.isbn # None
        /\ DictsBuilt =>
              /\ Excluded(lubimyCzytacBooks) \subseteq ExcludedReported(lubimyCzytacBooks)
              /\ Excluded(naKanapieBooks) \subseteq ExcludedReported(naKanapieBooks)

\* C12: once the ISBN-keyed dicts are built, every ISBN that two books of one
\* catalog share has been reported as a collision.
C12_CollisionReported ==
    /\ (program = "import" /\ DictsBuilt) =>
          /\ Collisions(lubimyCzytacBooks) \subseteq CollisionsReported(lubimyCzytacBooks)
          /\ Collisions(naKanapieBooks) \subseteq CollisionsReported(naKanapieBooks)
    /\ (program = "csv" /\ pc \in {"csv", "recrawl", "done"}) =>
          Collisions(naKanapieBooks) \subseteq CollisionsReported(naKanapieBooks)

\* the characters of s that are not in drop, in order
Without(s, drop) == SelectSeq(s, LAMBDA c : c \notin drop)

Normalized == normalized # <<>>

\* C19 as stated: the normalizer yields a key for every string, yields the
\* same key when applied to its own result, and yields one key for two strings
\* that differ only by hyphens and whitespace characters, wherever they stand.
C19_WhitespaceAnywhere ==
    Normalized =>
        /\ \A i \in 1..3 : normalized[i] \in Seq(IsbnChars)
        /\ normalized[3] = normalized[1]
        /\ Without(isbnPair[1], {"-"} \cup Whitespace) = Without(isbnPair[2], {"-"} \cup Whitespace)
              => normalized[1] = normalized[2]

\* C19 amended: total, idempotent, and one key for two strings that differ
\* only by hyphens and space characters, wherever they stand; the key holds
\* no hyphen and no space and has no whitespace at its ends.
C19_HyphensAndSpaces ==
    Normalized =>
        /\ \A i \in 1..3 :
              /\ normalized[i] \in Seq(IsbnChars \ {"-", " "})
              /\ normalized[i] = <<>> \/
                    (Head(normalized[i]) \notin Whitespace
                     /\ normalized[i][Len(normalized[i])] \notin Whitespace)
        /\ normalized[3] = normalized[1]
        /\ Without(isbnPair[1], {"-", " "}) = Without(isbnPair[2], {"-", " "})
              => normalized[1] = normalized[2]

\* C19 happens: a string with a hyphen and a string with a space, otherwise
\* the same, have been normalized to one key
C19_Witness ==
    /\ Normalized
    /\ isbnPair[1] = <<"1", "-", "1">>
    /\ isbnPair[2] = <<"1", " ", "1">>
    /\ normalized[1] = <<"1", "1">>
    /\ normalized[2] = <<"1", "1">>

\* C21: a save followed by a load returns the books that were saved, field for
\* field, in the order of the save; a load with no file returns the empty
\* sequence.
C21_RoundTrip ==
    /\ filePc = "loaded" =>
          /\ loaded = sortBooksByIsbn(collection)
          /\ Len(loaded) = Len(collection)
          /\ SeqToSet(loaded) = SeqToSet(collection)
    /\ filePc = "loadedNone" => loaded = <<>>

\* C21 happens: books with and without an ISBN were saved in another order
\* than they were handed over, and loaded again
C21_Witness ==
    /\ filePc = "loaded"
    /\ loaded # collection
    /\ \E i \in 1..Len(loaded) : loaded[i].isbn = None
    /\ \E i \in 1..Len(loaded) : loaded[i].isbn = <<"1", "2">>

\* the membership tags a create call carries
CreateLists(call) == IF "lists" \in DOMAIN call THEN call.lists ELSE <<>>

CreateCallsFor(isbn) == SelectSeq(createCalls, LAMBDA c : c.isbn = isbn)

\* C22: for a key of A that B lacks and that the search found, exactly one
\* create call is issued; it carries a status, the one mapped from the A-item's
\* tags, and every membership tag mapped from the A-item's tags.
C22_CreateAppliesMapping ==
    program = "import" =>
        \A t \in 1..Len(tasks) :
            (tasks[t].op = "add" /\ tasks[t].search = "found") =>
                LET calls == CreateCallsFor(tasks[t].isbn)
                IN  /\ Len(calls) = 1
                    /\ calls[1].kind # NoKind
                    /\ calls[1].kind = findKindForBook(mapping, TaskLc(t).shelves)
                    /\ \A s \in SeqToSet(TaskLc(t).shelves) :
                          IsList(mapping, s) =>
                              Contains(CreateLists(calls[1]), mapping[s].list)

\* the statuses the mapping gives the shelves of the A-item under a key
MappedKinds(isbn) ==
    { mapping[s].kind :
        s \in { x \in SeqToSet(lubimyCzytacBooks[IsbnIndex(lubimyCzytacBooks, isbn)].shelves) :
                  IsKind(mapping, x) } }

\* C24: every update call of a reconciliation carries a status, which is the
\* B-item's previous status when no tag of the A-item maps to a status, and
\* otherwise that status or one mapped from a tag of the A-item; the status of
\* every B-item in memory is its previous status or one mapped from a tag of
\* the A-item under its key.
C24_StatusPreserved ==
    program = "import" =>
        /\ \A c \in SeqToSet(updateCalls) :
              LET b == BeforeOf(c)
              IN  /\ c.kind # NoKind
                  /\ MappedKinds(b.isbn) = {} => c.kind = b.kind
                  /\ c.kind = b.kind \/ c.kind \in MappedKinds(b.isbn)
        /\ Len(naKanapieBooks) = Len(naKanapieBefore)
        /\ \A i \in 1..Len(naKanapieBooks) :
              \/ naKanapieBooks[i].kind = naKanapieBefore[i].kind
              \/ /\ naKanapieBooks[i].isbn \in KeysA
                 /\ naKanapieBooks[i].kind \in MappedKinds(naKanapieBooks[i].isbn)

\* what bookNeedsUpdate answers for the loaded B-item under a shared key
ExpectedUpdate(isbn) ==
    bookNeedsUpdate(mapping,
                    lubimyCzytacBooks[IsbnIndex(lubimyCzytacBooks, isbn)],
                    naKanapieBefore[IsbnIndex(naKanapieBefore, isbn)])

\* the outcome of a reconciliation as the inputs A and B alone determine it
ExpectedUpdateCalls ==
    { UpdateCall(ExpectedUpdate(k).book) :
        k \in { x \in KeysA \cap IsbnKeys(naKanapieBefore) : ExpectedUpdate(x).update } }
ExpectedNaKanapie ==
    [i \in 1..Len(naKanapieBefore) |->
        IF /\ naKanapieBefore[i].isbn \in KeysA
           /\ i = IsbnIndex(naKanapieBefore, naKanapieBefore[i].isbn)
        THEN ExpectedUpdate(naKanapieBefore[i].isbn).book
        ELSE naKanapieBefore[i]]

\* the tasks of the current pass whose search was answered with r
Answered(r) == { tasks[t].isbn : t \in { u \in 1..Len(tasks) : tasks[u].search = r } }

\* a reconciliation whose passes have ended, normally or by an exception
RunEnded == program = "import" /\ (pc \in {"recrawl", "done"} \/ (pc = "aborted" /\ tasks # <<>>))

\* C23: when a reconciliation has ended, its update calls, its search and
\* create calls, its unresolved set and the B collection in memory are the
\* ones the inputs and the answers given determine, whatever the order in
\* which the tasks ran: every shared item that needs one has its update call
\* and its change in memory, and once the create pass has started every
\* missing key has been searched for, created if found, unresolved if not.
C23_InterleavingIndependent ==
    RunEnded =>
        /\ SeqToSet(updateCalls) = ExpectedUpdateCalls
        /\ naKanapieBooks = ExpectedNaKanapie
        /\ (\E t \in 1..Len(tasks) : tasks[t].op = "add") =>
              /\ SeqToSet(searchCalls) = KeysA \ KeysB
              /\ { c.isbn : c \in SeqToSet(createCalls) } = Answered("found")
              /\ SeqToSet(isbnsNotFound) = Answered("notfound")

\* how many times a list id occurs in a membership list
Occurrences(lists, x) == Len(SelectSeq(lists, LAMBDA y : y = x))

\* the rows of the CSV file whose task has run
RowsRun == { tasks[t].isbn : t \in { u \in 1..Len(tasks) : tasks[u].st # "pending" } }

\* C26: in a run of csvOwnedToNaKanapie every item of the snapshot has at most
\* one update call; an item that was in the own list has none; an item that
\* was not and whose ISBN a processed row names has exactly one, whose
\* membership is the item's own followed by ownListId, once; an ISBN the
\* snapshot lacks is searched for and created with status want_to_read, and no
\* update call is issued for it.
C26_OneUpdatePerItem ==
    program = "csv" =>
        /\ \A i \in 1..Len(naKanapieBefore) :
              LET b == naKanapieBefore[i]
                  calls == CallsTo(b.id)
              IN  /\ Len(calls) <= 1
                  /\ Contains(b.lists, ownListId) => calls = <<>>
                  /\ (~Contains(b.lists, ownListId) /\ b.isbn \in RowsRun) => Len(calls) = 1
                  /\ \A c \in SeqToSet(calls) :
                        /\ b.isbn \in RowsRun
                        /\ Occurrences(c.lists, ownListId) = 1
                        /\ c.lists = Append(b.lists, ownListId)
                        /\ c.kind = b.kind
        /\ \A c \in SeqToSet(updateCalls) :
              \E i \in 1..Len(naKanapieBefore) : naKanapieBefore[i].id = c.id
        /\ \A t \in 1..Len(tasks) :
              (tasks[t].st # "pending" /\ tasks[t].isbn \notin IsbnKeys(naKanapieBefore)) =>
                  /\ Contains(searchCalls, tasks[t].isbn)
                  /\ tasks[t].search = "found" =>
                        Contains(createCalls, CreateCall(tasks[t].isbn, KIND_WANT_TO_READ))
        /\ \A c \in SeqToSet(createCalls) :
              /\ c.kind = KIND_WANT_TO_READ
              /\ c.isbn \in RowsRun \ IsbnKeys(naKanapieBefore)

\* a finished run over a CSV file that names the same ISBN in both of its
\* rows: the item, which was not in the own list, got its one update call
C26_Witness ==
    /\ program = "csv"
    /\ pc = "done"
    /\ Len(isbnsToProcess) = 2
    /\ isbnsToProcess[1] = isbnsToProcess[2]
    /\ \E i \in 1..Len(naKanapieBefore) :
          /\ naKanapieBefore[i].isbn = isbnsToProcess[1]
          /\ naKanapieBefore[i].lists = <<OtherList>>
          /\ CallsTo(naKanapieBefore[i].id) =
                <<[id |-> naKanapieBefore[i].id, kind |-> naKanapieBefore[i].kind,
                   lists |-> <<OtherList, OwnList>>]>>

\* how many detail fetches this crawl has issued for a sourceId
DetailFetches(id) == Len(SelectSeq(detailCalls, LAMBDA x : x = id))

\* the previous snapshot holds an identity key for the sourceId
HasPreviousKey(id) ==
    \E j \in 1..Len(previousResult) :
        previousResult[j].id = id /\ previousResult[j].isbn # None

\* the enrichment of the crawl has been started
Enriching == crawlPc \in {"enrich", "detailFailed"} \/ Saved

\* C25: a crawl issues detail fetches only for listed items whose sourceId the
\* previous snapshot holds no identity key for, never two for one item, and
\* once its enrichment has started exactly one for each such item and none
\* for any other; an item the previous snapshot holds without a key is
\* fetched again.
C25_EnrichmentFetchCount ==
    /\ \A id \in SeqToSet(detailCalls) :
          /\ id \in BookIds
          /\ ~HasPreviousKey(id)
          /\ DetailFetches(id) = 1
    /\ Enriching =>
          \A id \in BookIds :
              DetailFetches(id) = (IF HasPreviousKey(id) THEN 0 ELSE 1)

\* a second crawl is saved: an item that the previous snapshot holds without a
\* key was fetched again, an item it holds with a key was not
C25_Witness ==
    /\ Saved
    /\ crawlsDone = 2
    /\ \E j \in 1..Len(previousResult) :
          /\ previousResult[j].isbn = None
          /\ DetailFetches(previousResult[j].id) = 1
    /\ \E j \in 1..Len(previousResult) :
          /\ previousResult[j].isbn # None
          /\ previousResult[j].id \in BookIds
          /\ DetailFetches(previousResult[j].id) = 0

====
